---- MODULE Spec2Model ----
(***************************************************************************)
(* Model of the Reddit sentiment client: the request client                *)
(* (frontend/src/api/api.ts, analyzeRedditUrl) and the Home component      *)
(* (frontend/src/pages/home/Home.tsx: handleSubmit, handleCopyToClipboard, *)
(* the raw-JSON toggle and the render function).                           *)
(*                                                                         *)
(* JavaScript values are tagged records [t |-> tag, ...]; strings shown to *)
(* the user are TLA+ strings, the text typed into the input is a sequence  *)
(* of one-character strings so that String.prototype.trim can be computed. *)
(***************************************************************************)
EXTENDS Integers, Sequences, FiniteSets, TLC

\* ------------------------------------------------------------------ bounds
MaxUrlLen == 1
MaxRequests == 2
MaxCopies == 2
MaxItems == 2

\* ------------------------------------------------------- JavaScript values
JNull == [t |-> "null"]
JUndefined == [t |-> "undefined"]
JStr(s) == [t |-> "str", v |-> s]
\* the number v * 10^(-e), written as in a JSON text
JDec(n, scale) == [t |-> "num", v |-> n, e |-> scale]
JNum(n) == JDec(n, 0)
JArr(s) == [t |-> "arr", v |-> s]
JObj(r) == [t |-> "obj", v |-> r]

\* ToBoolean, as applied by `if (x)`, `!x` and `x && ...`
Truthy(j) ==
    CASE j.t = "null" -> FALSE
      [] j.t = "undefined" -> FALSE
      [] j.t = "str" -> j.v # ""
      [] j.t = "num" -> j.v # 0
      [] OTHER -> TRUE

\* property read obj.f (undefined when absent or when obj is a primitive)
Get(j, f) ==
    IF j.t = "obj" /\ f \in DOMAIN j.v THEN j.v[f] ELSE JUndefined

\* obj.f throws a TypeError exactly for null and undefined
GetThrows(j) == j.t \in {"null", "undefined"}

RECURSIVE Pow10(_)
Pow10(k) == IF k = 0 THEN 1 ELSE 10 * Pow10(k - 1)

RECURSIVE PadDigits(_, _)
\* the k decimal digits of n, leading zeros kept
PadDigits(n, k) ==
    IF k = 0 THEN "" ELSE PadDigits(n \div 10, k - 1) \o ToString(n % 10)

RECURSIVE NumToStr(_, _)
\* Number::toString of v * 10^(-scale): no trailing zeros, no bare point
NumToStr(v, scale) ==
    IF v < 0 THEN "-" \o NumToStr(0 - v, scale)
    ELSE IF scale = 0 THEN ToString(v)
    ELSE IF v % 10 = 0 THEN NumToStr(v \div 10, scale - 1)
    ELSE ToString(v \div Pow10(scale)) \o "."
         \o PadDigits(v % Pow10(scale), scale)

RECURSIVE ToStr(_)
RECURSIVE JoinFrom(_, _)
\* Array.prototype.join(","): null and undefined elements give ""
JoinFrom(s, i) ==
    IF i > Len(s) THEN ""
    ELSE (IF s[i].t \in {"null", "undefined"} THEN "" ELSE ToStr(s[i]))
         \o (IF i < Len(s) THEN "," ELSE "")
         \o JoinFrom(s, i + 1)

\* ToString, as applied by new Error(message) to its argument
ToStr(j) ==
    CASE j.t = "str" -> j.v
      [] j.t = "num" -> NumToStr(j.v, j.e)
      [] j.t = "null" -> "null"
      [] j.t = "undefined" -> "undefined"
      [] j.t = "arr" -> JoinFrom(j.v, 1)
      [] OTHER -> "[object Object]"

\* ------------------------------------------------------------ the url text
WhiteSpace == {" "}
Chars == {"a"} \cup WhiteSpace
Urls == UNION {[1..n -> Chars] : n \in 0..MaxUrlLen}

RECURSIVE TrimStart(_)
TrimStart(s) ==
    IF s # <<>> /\ Head(s) \in WhiteSpace THEN TrimStart(Tail(s)) ELSE s

RECURSIVE TrimEnd(_)
TrimEnd(s) ==
    IF s # <<>> /\ s[Len(s)] \in WhiteSpace
    THEN TrimEnd(SubSeq(s, 1, Len(s) - 1)) ELSE s

\* a plausible slip: the raw text is tested, not the trimmed text
TrimIdentity(s) == s

\* String.prototype.trim
Trim(s) == TrimEnd(TrimStart(s))

\* ------------------------------------------------------------- responses
Sentiments == {"positive", "negative", "neutral"}

Result1 ==
    JObj([post_title |-> JStr("Test Post"),
          overall_sentiment |-> JStr("positive"),
          groups |-> JArr(<<
              JObj([label |-> JStr("positive"), count |-> JNum(8),
                    proportion |-> JDec(8, 1)]),
              JObj([label |-> JStr("negative"), count |-> JNum(2),
                    proportion |-> JDec(2, 1)])>>),
          controversy |-> JDec(35, 2),
          keywords |-> JArr(<<JStr("great"), JStr("useful")>>),
          notable_comments |-> JArr(<<
              JObj([comment_id |-> JStr("c1"), snippet |-> JStr("Loved it"),
                    sentiment |-> JStr("positive"), score |-> JNum(42)])>>)])

Result2 ==
    JObj([post_title |-> JStr("Other Post"),
          overall_sentiment |-> JStr("neutral"),
          groups |-> JArr(<<
              JObj([label |-> JStr("neutral"), count |-> JNum(1),
                    proportion |-> JDec(1, 0)])>>),
          controversy |-> JNum(0),
          keywords |-> JArr(<<>>),
          notable_comments |-> JArr(<<>>)])

\* Result1 without the field overall_sentiment
MissingSentiment ==
    JObj([f \in (DOMAIN Result1.v) \ {"overall_sentiment"} |-> Result1.v[f]])

\* Result1 with an overall_sentiment outside the three literals
BadEnum ==
    JObj([Result1.v EXCEPT !.overall_sentiment = JStr("mixed")])

\* Result2 with a count that is a string
NonNumericCount ==
    JObj([Result2.v EXCEPT !.groups = JArr(<<
        JObj([label |-> JStr("neutral"), count |-> JStr("1"),
              proportion |-> JDec(1, 0)])>>)])

\* ------------------------------------- results of every shape (api.ts 4-24)
\* sequences over S of at most n elements
SeqsUpTo(S, n) == UNION {[1..k -> S] : k \in 0..n}

\* texts with the characters JSON.stringify has to escape
Texts == {"Test Post", "", "say \"hi\"", "back\\slash", "two\nlines",
          "tab\there"}

\* numbers with a sign and with a fraction
Numbers == {JNum(0), JNum(-7), JDec(35, 2), JDec(-5, 1), JNum(120)}

Groups ==
    {JObj([label |-> JStr("positive"), count |-> JNum(8),
           proportion |-> JDec(8, 1)]),
     JObj([label |-> JStr("negative"), count |-> JNum(2),
           proportion |-> JDec(2, 1)])}

Comments ==
    {JObj([comment_id |-> JStr("c1"), snippet |-> JStr("Loved it"),
           sentiment |-> JStr("positive"), score |-> JNum(42)]),
     JObj([comment_id |-> JStr("c2"), snippet |-> JStr("\"no\"\n\\o/"),
           sentiment |-> JStr("negative"), score |-> JNum(-3)])}

\* Result1 with one field replaced, and the other results the page can hold
RoundTripResults ==
    {JObj([Result1.v EXCEPT !.post_title = JStr(t)]) : t \in Texts}
    \cup {JObj([Result1.v EXCEPT !.overall_sentiment = JStr(s)]) :
            s \in Sentiments}
    \cup {JObj([Result1.v EXCEPT !.controversy = n]) : n \in Numbers}
    \cup {JObj([Result1.v EXCEPT !.groups = JArr(g)]) :
            g \in SeqsUpTo(Groups, MaxItems)}
    \cup {JObj([Result1.v EXCEPT !.keywords = JArr(k)]) :
            k \in SeqsUpTo({JStr("great"), JStr("so \"so\"")}, MaxItems)}
    \cup {JObj([Result1.v EXCEPT !.notable_comments = JArr(c)]) :
            c \in SeqsUpTo(Comments, MaxItems)}
    \cup {Result2, BadEnum, NonNumericCount}

\* a body is JSON text holding a value, or text that is not JSON
JsonBody(j) == [json |-> TRUE, value |-> j]
NotJson == [json |-> FALSE]

SuccessBodies ==
    {JsonBody(j) : j \in {Result1, Result2, MissingSentiment, BadEnum,
                          NonNumericCount, JNull}} \cup {NotJson}

ValidationDetail ==
    JArr(<<JObj([loc |-> JArr(<<JStr("body"), JStr("url")>>),
                 msg |-> JStr("field required")])>>)

ErrorBodies ==
    {JsonBody(JObj([detail |-> d])) :
        d \in {JStr("Invalid Reddit URL"), JStr(""), JNum(42), JArr(<<>>),
               ValidationDetail}}
    \cup {JsonBody(JObj([message |-> JStr("boom")])), JsonBody(JNull), NotJson}

OkStatuses == {200}

\* what the network hands back for one request
Responses ==
    {[kind |-> "neterr", cause |-> "Failed to fetch"]}
    \cup {[kind |-> "http", status |-> s, body |-> b] :
            s \in OkStatuses, b \in SuccessBodies}
    \cup {[kind |-> "http", status |-> 422, body |-> b] : b \in ErrorBodies}
    \cup {[kind |-> "http", status |-> 500, body |-> NotJson]}

\* Response.ok
ResponseOk(resp) == resp.status >= 200 /\ resp.status <= 299

\* ------------------------------------------------ outcomes of an async call
Return(v) == [ok |-> TRUE, value |-> v]
Throw(name, msg) ==
    [ok |-> FALSE, err |-> [isError |-> TRUE, name |-> name, message |-> msg]]

\* new Error(message)
NewError(message) == Throw("Error", ToStr(message))

\* Response.json(): the parsed value, or a SyntaxError
ResponseJson(body) ==
    IF body.json THEN Return(body.value)
    ELSE Throw("SyntaxError", "Unexpected token < in JSON at position 0")

FallbackMessage(status) ==
    "API request failed with status " \o ToString(status)

\* ------------------------------------------------------- the request client
\* api.ts 43-52: the value of errorMessage when it is thrown
ErrorMessageOf(status, body) ==
    LET parsed == ResponseJson(body) IN
    IF ~parsed.ok \/ GetThrows(parsed.value) THEN JStr(FallbackMessage(status))
    ELSE IF Truthy(Get(parsed.value, "detail"))
         THEN Get(parsed.value, "detail")
         ELSE JStr(FallbackMessage(status))

\* the outcome of analyzeRedditUrl once the network has answered with resp
analyzeRedditUrl(resp) ==
    IF resp.kind = "neterr" THEN Throw("TypeError", resp.cause)
    ELSE IF ~ResponseOk(resp) THEN NewError(ErrorMessageOf(resp.status, resp.body))
    ELSE ResponseJson(resp.body)

\* ------------------------------------------ JSON.stringify and JSON.parse
\* the order in which the properties of the objects of this model were
\* created, which is the order JSON.stringify writes them in
KeyOrder ==
    <<"post_title", "overall_sentiment", "groups", "controversy", "keywords",
      "notable_comments", "label", "count", "proportion", "comment_id",
      "snippet", "sentiment", "score", "detail", "message", "loc", "msg">>

RECURSIVE QuoteFrom(_, _)
\* the characters of s from position i on, escaped as in a JSON string
QuoteFrom(s, i) ==
    IF i > Len(s) THEN ""
    ELSE LET c == SubSeq(s, i, i) IN
         (CASE c = "\"" -> "\\\""
            [] c = "\\" -> "\\\\"
            [] c = "\n" -> "\\n"
            [] c = "\t" -> "\\t"
            [] OTHER -> c) \o QuoteFrom(s, i + 1)

\* a plausible slip: the string is put between quotes without escaping
QuoteRaw(s) == "\"" \o s \o "\""

\* QuoteJSONString
Quote(s) == "\"" \o QuoteFrom(s, 1) \o "\""

RECURSIVE Stringify(_, _)
RECURSIVE StringifyItems(_, _, _)
RECURSIVE StringifyMembers(_, _, _, _)

\* the elements of array a from index i on, one per line, at indentation ind
StringifyItems(a, i, ind) ==
    IF i > Len(a) THEN ""
    ELSE ind \o (IF a[i].t = "undefined" THEN "null" ELSE Stringify(a[i], ind))
         \o (IF i < Len(a) THEN ",\n" ELSE "\n")
         \o StringifyItems(a, i + 1, ind)

\* the properties of record r named by keys[i..], one per line; first tells
\* that no property has been written yet; undefined properties are skipped
StringifyMembers(r, keys, i, ind) ==
    IF i > Len(keys) THEN ""
    ELSE LET rest == StringifyMembers(r, keys, i + 1, ind) IN
         IF keys[i] \notin DOMAIN r \/ r[keys[i]].t = "undefined" THEN rest
         ELSE ind \o Quote(keys[i]) \o ": " \o Stringify(r[keys[i]], ind)
              \o (IF rest = "" THEN "\n" ELSE ",\n") \o rest

\* SerializeJSONProperty with a gap of two spaces; ind is the indentation of
\* the line the value starts on
Stringify(j, ind) ==
    CASE j.t = "null" -> "null"
      [] j.t = "bool" -> IF j.v THEN "true" ELSE "false"
      [] j.t = "num" -> NumToStr(j.v, j.e)
      [] j.t = "str" -> Quote(j.v)
      [] j.t = "arr" ->
            IF j.v = <<>> THEN "[]"
            ELSE "[\n" \o StringifyItems(j.v, 1, ind \o "  ") \o ind \o "]"
      [] j.t = "obj" ->
            LET body == StringifyMembers(j.v, KeyOrder, 1, ind \o "  ") IN
            IF body = "" THEN "{}" ELSE "{\n" \o body \o ind \o "}"

\* JSON.stringify(value, null, 2)
JSONStringify(j) == Stringify(j, "")

Digits == {"0", "1", "2", "3", "4", "5", "6", "7", "8", "9"}
DigitVal(c) == CHOOSE d \in 0..9 : ToString(d) = c
CharAt(s, i) == IF i >= 1 /\ i <= Len(s) THEN SubSeq(s, i, i) ELSE ""

RECURSIVE SkipWs(_, _)
\* the first position from i on that holds no JSON white space
SkipWs(s, i) ==
    IF CharAt(s, i) \in {" ", "\n", "\t", "\r"} THEN SkipWs(s, i + 1) ELSE i

\* a parse step: the value read and the position after it, or a failure
Parsed(v, i) == [ok |-> TRUE, v |-> v, i |-> i]
ParseFail == [ok |-> FALSE]

RECURSIVE ParseChars(_, _, _)
\* the rest of a string literal whose opening quote has been read
ParseChars(s, i, acc) ==
    LET c == CharAt(s, i) IN
    IF c = "" \/ c = "\n" \/ c = "\t" THEN ParseFail
    ELSE IF c = "\"" THEN Parsed(acc, i + 1)
    ELSE IF c = "\\" THEN
        LET e == CharAt(s, i + 1) IN
        CASE e = "\"" -> ParseChars(s, i + 2, acc \o "\"")
          [] e = "\\" -> ParseChars(s, i + 2, acc \o "\\")
          [] e = "/" -> ParseChars(s, i + 2, acc \o "/")
          [] e = "n" -> ParseChars(s, i + 2, acc \o "\n")
          [] e = "t" -> ParseChars(s, i + 2, acc \o "\t")
          [] OTHER -> ParseFail
    ELSE ParseChars(s, i + 1, acc \o c)

RECURSIVE ParseDigits(_, _, _, _)
\* a run of digits from i on: its value appended to acc, its length added to n
ParseDigits(s, i, acc, n) ==
    IF CharAt(s, i) \in Digits
    THEN ParseDigits(s, i + 1, 10 * acc + DigitVal(CharAt(s, i)), n + 1)
    ELSE [v |-> acc, n |-> n, i |-> i]

RECURSIVE Normal(_, _)
\* the number v * 10^(-scale) without trailing zeros in its fraction
Normal(v, scale) ==
    IF scale > 0 /\ v % 10 = 0 THEN Normal(v \div 10, scale - 1)
    ELSE JDec(v, scale)

\* a JSON number without exponent
ParseNumber(s, i) ==
    LET neg == CharAt(s, i) = "-"
        j == IF neg THEN i + 1 ELSE i
        int == ParseDigits(s, j, 0, 0)
        lead == CharAt(s, j) = "0" /\ int.n > 1
        dot == CharAt(s, int.i) = "."
        frac == IF dot THEN ParseDigits(s, int.i + 1, int.v, 0) ELSE int
    IN  IF int.n = 0 \/ lead \/ (dot /\ frac.n = 0) THEN ParseFail
        ELSE LET m == Normal(frac.v, IF dot THEN frac.n ELSE 0) IN
             Parsed(JDec(IF neg THEN 0 - m.v ELSE m.v, m.e), frac.i)

RECURSIVE ParseValue(_, _)
RECURSIVE ParseItems(_, _, _)
RECURSIVE ParseMembers(_, _, _)

\* the elements of an array after "[" or after a comma
ParseItems(s, i, acc) ==
    LET e == ParseValue(s, i) IN
    IF ~e.ok THEN ParseFail
    ELSE LET j == SkipWs(s, e.i) IN
         CASE CharAt(s, j) = "," -> ParseItems(s, j + 1, Append(acc, e.v))
           [] CharAt(s, j) = "]" -> Parsed(JArr(Append(acc, e.v)), j + 1)
           [] OTHER -> ParseFail

\* the members of an object after "{" or after a comma; a repeated key keeps
\* its last value
ParseMembers(s, i, acc) ==
    LET k0 == SkipWs(s, i)
        k == IF CharAt(s, k0) = "\"" THEN ParseChars(s, k0 + 1, "")
             ELSE ParseFail
    IN  IF ~k.ok THEN ParseFail
        ELSE LET c == SkipWs(s, k.i) IN
             IF CharAt(s, c) # ":" THEN ParseFail
             ELSE LET e == ParseValue(s, c + 1) IN
                  IF ~e.ok THEN ParseFail
                  ELSE LET j == SkipWs(s, e.i)
                           next == (k.v :> e.v) @@ acc
                       IN  CASE CharAt(s, j) = "," -> ParseMembers(s, j + 1, next)
                             [] CharAt(s, j) = "}" -> Parsed(JObj(next), j + 1)
                             [] OTHER -> ParseFail

\* one JSON value, white space before it skipped
ParseValue(s, i) ==
    LET j == SkipWs(s, i)
        c == CharAt(s, j)
    IN  CASE c = "\"" ->
               LET r == ParseChars(s, j + 1, "") IN
               IF r.ok THEN Parsed(JStr(r.v), r.i) ELSE ParseFail
          [] c = "[" ->
               IF CharAt(s, SkipWs(s, j + 1)) = "]"
               THEN Parsed(JArr(<<>>), SkipWs(s, j + 1) + 1)
               ELSE ParseItems(s, j + 1, <<>>)
          [] c = "{" ->
               IF CharAt(s, SkipWs(s, j + 1)) = "}"
               THEN Parsed(JObj(<<>>), SkipWs(s, j + 1) + 1)
               ELSE ParseMembers(s, j + 1, <<>>)
          [] c = "-" \/ c \in Digits -> ParseNumber(s, j)
          [] j + 3 <= Len(s) /\ SubSeq(s, j, j + 3) = "null" ->
               Parsed(JNull, j + 4)
          [] OTHER -> ParseFail

\* JSON.parse(text): the value, or a SyntaxError
JSONParse(text) ==
    LET r == ParseValue(text, 1) IN
    IF r.ok /\ SkipWs(text, r.i) = Len(text) + 1 THEN Return(r.v)
    ELSE Throw("SyntaxError", "Unexpected token in JSON")

\* --------------------------------------------------------- the Home render
IsStr(j) == j.t = "str"
IsArr(j) == j.t = "arr"

\* Home.tsx 86-180: does rendering the result block throw a TypeError?
RenderThrows(r) ==
    /\ Truthy(r)
    /\ \/ ~IsStr(Get(r, "overall_sentiment"))
       \/ Get(r, "controversy").t # "num"
       \/ ~IsArr(Get(r, "groups"))
       \/ ~IsArr(Get(r, "keywords"))
       \/ ~IsArr(Get(r, "notable_comments"))
       \/ Get(r, "post_title").t \in {"obj"}
       \/ \E i \in DOMAIN Get(r, "groups").v :
             LET g == Get(r, "groups").v[i] IN
             GetThrows(g) \/ ~IsStr(Get(g, "label"))
                          \/ Get(g, "count").t \in {"obj"}
       \/ \E i \in DOMAIN Get(r, "notable_comments").v :
             LET c == Get(r, "notable_comments").v[i] IN
             GetThrows(c) \/ Get(c, "score").t \in {"obj"}
                          \/ Get(c, "snippet").t \in {"obj"}
                          \/ Get(c, "sentiment").t \in {"obj"}
       \/ \E i \in DOMAIN Get(r, "keywords").v :
             Get(r, "keywords").v[i].t \in {"obj"}

\* ------------------------------------------------------------------ state
VARIABLES
    url,          \* Home.tsx 8: the text of the input
    loading,      \* Home.tsx 9
    result,       \* Home.tsx 10: null or the value analyzeRedditUrl returned
    error,        \* Home.tsx 11: null or a string
    showRawJson,  \* Home.tsx 12
    copySuccess,  \* Home.tsx 13
    mounted,      \* FALSE once a render of Home has thrown (no error boundary)
    inflight,     \* ids of the fetch calls that have not settled
    requests,     \* number of fetch calls made so far
    copies,       \* texts of the clipboard writes that have not settled
    timers,       \* pending setTimeout callbacks of handleCopyToClipboard
    submits,      \* history: handleSubmit calls whose url was not all blank
    overlapped,   \* history: some request was sent while another was in flight
    last          \* history: the last event and the mode it started from

vars == <<url, loading, result, error, showRawJson, copySuccess, mounted,
          inflight, requests, copies, timers, submits, overlapped,
          last>>

ValidationMessage == "Please enter a Reddit URL"

\* the url consists of white space only (or is empty)
IsBlank(s) == \A i \in DOMAIN s : s[i] \in WhiteSpace

\* the mode the render function shows (Home.tsx 73, 80, 86)
Mode ==
    IF loading THEN "Loading"
    ELSE IF Truthy(result) THEN "Success"
    ELSE IF error # JNull /\ error # JStr(ValidationMessage) THEN "Failed"
    ELSE "Idle"

Event(op, arg) ==
    [op |-> op, prev |-> [mode |-> Mode, raw |-> showRawJson], arg |-> arg]

Init ==
    /\ url = <<>>
    /\ loading = FALSE
    /\ result = JNull
    /\ error = JNull
    /\ showRawJson = FALSE
    /\ copySuccess = FALSE
    /\ mounted = TRUE
    /\ inflight = {}
    /\ requests = 0
    /\ copies = <<>>
    /\ timers = 0
    /\ submits = 0
    /\ overlapped = FALSE
    /\ last = [op |-> "init", prev |-> [mode |-> "Idle", raw |-> FALSE],
              arg |-> JNull]

\* a plausible slip: the controls stay enabled while a request is outstanding
FormIgnoresLoading == mounted

\* the form controls are disabled while loading (Home.tsx 62, 67)
FormEnabled == mounted /\ ~loading

\* onChange of the input (Home.tsx 61)
SetUrl ==
    /\ FormEnabled
    /\ \E u \in Urls : u # url /\ url' = u
    /\ last' = Event("setUrl", JNull)
    /\ UNCHANGED <<loading, result, error, showRawJson, copySuccess, mounted,
                   inflight, requests, copies, timers, submits,
                   overlapped>>

\* a plausible slip: the previous result stays while the new request runs
ResetKeepsResult ==
    /\ loading' = TRUE
    /\ error' = JNull
    /\ showRawJson' = FALSE
    /\ UNCHANGED result

\* a plausible slip: the previous error stays while the new request runs
ResetKeepsError ==
    /\ loading' = TRUE
    /\ result' = JNull
    /\ showRawJson' = FALSE
    /\ UNCHANGED error

\* Home.tsx 23-26: the state set before the request is sent
ResetForDispatch ==
    /\ loading' = TRUE
    /\ error' = JNull
    /\ result' = JNull
    /\ showRawJson' = FALSE

\* api.ts 34-40: analyzeRedditUrl calls fetch once; the call is in flight
Dispatch ==
    /\ requests' = requests + 1
    /\ inflight' = inflight \cup {requests + 1}
    /\ overlapped' = (inflight # {})

\* Home.tsx 15-29: handleSubmit up to the await, the fetch call included
handleSubmit ==
    /\ submits' = IF IsBlank(url) THEN submits ELSE submits + 1
    /\ last' = Event("submit", [blank |-> IsBlank(url)])
    /\ IF Trim(url) = <<>>
       THEN /\ error' = JStr(ValidationMessage)
            /\ UNCHANGED <<loading, result, showRawJson, inflight, requests,
                           overlapped>>
       ELSE /\ requests < MaxRequests
            /\ ResetForDispatch
            /\ Dispatch
    /\ UNCHANGED <<url, copySuccess, mounted, copies, timers>>

\* the form is submitted while its controls are enabled
Submit == FormEnabled /\ handleSubmit

\* handleSubmit is invoked although a request is outstanding
Resubmit == mounted /\ loading /\ handleSubmit

\* a plausible slip: the catch block shows a fixed text
CatchMessageGeneric(err) == "An error occurred"

\* Home.tsx 32: the text the catch block stores
CatchMessage(err) == IF err.isError THEN err.message ELSE "An error occurred"

\* Home.tsx 30: the awaited call returned value
OnFulfilled(value) == result' = value /\ UNCHANGED error

\* Home.tsx 31-32: the awaited call threw err
OnRejected(err) == error' = JStr(CatchMessage(err)) /\ UNCHANGED result

\* a plausible slip: a failed request is sent again
AfterSettleRetry(id, out) ==
    IF out.ok
    THEN inflight' = inflight \ {id} /\ UNCHANGED requests
    ELSE /\ requests' = requests + 1
         /\ inflight' = (inflight \ {id}) \cup {requests + 1}

\* api.ts 33-58: a settled call is over, whatever its outcome (no retry)
AfterSettle(id, out) == inflight' = inflight \ {id} /\ UNCHANGED requests

\* Home.tsx 29-35: the continuation of handleSubmit once request id settles;
\* the state setters of a component that is no longer mounted do nothing
SettleWith(answers) ==
    \E id \in inflight, resp \in answers :
        LET out == analyzeRedditUrl(resp) IN
        /\ AfterSettle(id, out)
        /\ last' = Event("settle", resp)
        /\ IF mounted
           THEN /\ IF out.ok THEN OnFulfilled(out.value) ELSE OnRejected(out.err)
                /\ loading' = FALSE
                /\ mounted' = ~RenderThrows(result')
           ELSE UNCHANGED <<result, error, loading, mounted>>
        /\ UNCHANGED <<url, showRawJson, copySuccess, copies, timers,
                       submits, overlapped>>

Settle == SettleWith(Responses)

\* a plausible slip: the button only ever shows the raw view
ToggleOnlyShows ==
    /\ mounted
    /\ Truthy(result)
    /\ showRawJson' = TRUE
    /\ last' = Event("toggle", JNull)
    /\ UNCHANGED <<url, loading, result, error, copySuccess, mounted, inflight,
                   requests, copies, timers, submits, overlapped>>

\* Home.tsx 158-163: the toggle button, rendered only while a result is shown
ToggleRawJson ==
    /\ mounted
    /\ Truthy(result)
    /\ showRawJson' = ~showRawJson
    /\ last' = Event("toggle", JNull)
    /\ UNCHANGED <<url, loading, result, error, copySuccess, mounted, inflight,
                   requests, copies, timers, submits, overlapped>>

\* Home.tsx 38-42, 167-172: the copy button starts a clipboard write
CopyStart ==
    /\ mounted
    /\ Truthy(result)
    /\ showRawJson
    /\ Len(copies) + timers < MaxCopies
    /\ copies' = Append(copies, JSONStringify(result))
    /\ last' = Event("copy", JNull)
    /\ UNCHANGED <<url, loading, result, error, showRawJson, copySuccess,
                   mounted, inflight, requests, timers, submits,
                   overlapped>>

\* Home.tsx 42-47: the clipboard write resolves or rejects
CopySettle ==
    \E i \in DOMAIN copies, written \in BOOLEAN :
        /\ copies' = SubSeq(copies, 1, i - 1)
                      \o SubSeq(copies, i + 1, Len(copies))
        /\ last' = Event("copySettle", [written |-> written])
        /\ IF written
           THEN /\ copySuccess' = (IF mounted THEN TRUE ELSE copySuccess)
                /\ timers' = timers + 1
           ELSE UNCHANGED <<copySuccess, timers>>
        /\ UNCHANGED <<url, loading, result, error, showRawJson, mounted,
                       inflight, requests, submits, overlapped>>

\* a plausible slip: the timeout callback does not clear the flag
TimerFireKeeps ==
    /\ timers > 0
    /\ timers' = timers - 1
    /\ last' = Event("timer", JNull)
    /\ UNCHANGED <<url, loading, result, error, showRawJson, copySuccess,
                   mounted, inflight, requests, copies, submits,
                   overlapped>>

\* Home.tsx 44: the timeout callback
TimerFire ==
    /\ timers > 0
    /\ timers' = timers - 1
    /\ copySuccess' = (IF mounted THEN FALSE ELSE copySuccess)
    /\ last' = Event("timer", JNull)
    /\ UNCHANGED <<url, loading, result, error, showRawJson, mounted, inflight,
                   requests, copies, submits, overlapped>>

Next ==
    \/ SetUrl
    \/ Submit
    \/ Settle
    \/ ToggleRawJson
    \/ CopyStart
    \/ CopySettle
    \/ TimerFire

Spec == Init /\ [][Next]_vars

\* every pending promise settles and every pending timeout fires: the fetch
\* call resolves or rejects, the clipboard write resolves or rejects, and the
\* 2000 ms timeout of Home.tsx 44 runs its callback
Fairness ==
    /\ WF_vars(Settle)
    /\ WF_vars(CopySettle)
    /\ WF_vars(TimerFire)

FairSpec == Spec /\ Fairness

\* the page after the first request has been sent (Home.tsx 23-29)
InitCopy ==
    /\ url = <<"a">>
    /\ loading = TRUE
    /\ result = JNull
    /\ error = JNull
    /\ showRawJson = FALSE
    /\ copySuccess = FALSE
    /\ mounted = TRUE
    /\ inflight = {1}
    /\ requests = 1
    /\ copies = <<>>
    /\ timers = 0
    /\ submits = 1
    /\ overlapped = FALSE
    /\ last = [op |-> "submit", prev |-> [mode |-> "Idle", raw |-> FALSE],
              arg |-> [blank |-> FALSE]]

\* the answers that carry a result of every shape
CopyResponses ==
    {[kind |-> "http", status |-> 200, body |-> JsonBody(r)] :
        r \in RoundTripResults}

NextCopy ==
    \/ SettleWith(CopyResponses)
    \/ ToggleRawJson
    \/ CopyStart
    \/ CopySettle
    \/ TimerFire

\* the page from the answer to the first request on, copying what it holds
SpecCopy == InitCopy /\ [][NextCopy]_vars

NextOverlap == Next \/ Resubmit

\* the form fails to disable submission while a request is outstanding
SpecOverlap == Init /\ [][NextOverlap]_vars

\* ------------------------------------------------- the response schema
IsNumber(j) == j.t = "num"
IsSentiment(j) == IsStr(j) /\ j.v \in Sentiments

\* api.ts 4-8: SentimentGroup
ConformsGroup(g) ==
    /\ g.t = "obj"
    /\ IsSentiment(Get(g, "label"))
    /\ IsNumber(Get(g, "count"))
    /\ IsNumber(Get(g, "proportion"))

\* api.ts 10-15: NotableComment
ConformsComment(c) ==
    /\ c.t = "obj"
    /\ IsStr(Get(c, "comment_id"))
    /\ IsStr(Get(c, "snippet"))
    /\ IsSentiment(Get(c, "sentiment"))
    /\ IsNumber(Get(c, "score"))

\* api.ts 17-24: AnalyzeResponse
Conforms(j) ==
    /\ j.t = "obj"
    /\ IsStr(Get(j, "post_title"))
    /\ IsSentiment(Get(j, "overall_sentiment"))
    /\ IsArr(Get(j, "groups"))
    /\ \A i \in DOMAIN Get(j, "groups").v : ConformsGroup(Get(j, "groups").v[i])
    /\ IsNumber(Get(j, "controversy"))
    /\ IsArr(Get(j, "keywords"))
    /\ \A i \in DOMAIN Get(j, "keywords").v : IsStr(Get(j, "keywords").v[i])
    /\ IsArr(Get(j, "notable_comments"))
    /\ \A i \in DOMAIN Get(j, "notable_comments").v :
          ConformsComment(Get(j, "notable_comments").v[i])

\* ------------------------------------------------------------ the claims
LastWas(op) == last.op = op
BlankSubmitted == LastWas("submit") /\ last.arg.blank
UrlSubmitted == LastWas("submit") /\ ~last.arg.blank
\* the outcome the request client gave for the response that settled last
LastOutcome == analyzeRedditUrl(last.arg)

\* C1: a submission whose url is empty or consists of white space only sends
\* no request: the number of requests made and the set of requests in flight
\* are the same before and after the step.
C1_BlankSubmitSendsNothing ==
    [][(last'.op = "submit" /\ last'.arg.blank)
         => (requests' = requests /\ inflight' = inflight)]_vars

\* a white-space-only (not empty) url was submitted after an earlier request
C1_Witness ==
    BlankSubmitted /\ Len(url) > 0 /\ requests > 0 /\ inflight = {}

\* C2: after a submission with a blank url, from Idle, Success or Failed, the
\* component is not loading, holds no result and carries exactly the
\* validation message.
C2_BlankSubmitLeavesIdle ==
    BlankSubmitted =>
        /\ ~loading
        /\ result = JNull
        /\ error = JStr(ValidationMessage)

\* C3: the number of requests sent equals the number of submissions whose url
\* is not blank: one request per such submission, none for a blank one, and
\* none sent again after a request has settled.
C3_OneRequestPerSubmission == requests = submits

\* two submissions were dispatched and the second request has failed
C3_Witness ==
    /\ LastWas("settle")
    /\ ~LastOutcome.ok
    /\ requests = MaxRequests
    /\ inflight = {}

\* C4: once a non-blank url has been submitted, and for as long as its request
\* is outstanding, the component is loading, holds no result and no error,
\* and the raw view is hidden.
C4_DispatchClearsState ==
    /\ UrlSubmitted => inflight # {}
    /\ inflight # {} =>
          /\ loading
          /\ result = JNull
          /\ error = JNull
          /\ ~showRawJson

\* a non-blank url was submitted while a result was shown with the raw view
C4_Witness ==
    /\ UrlSubmitted
    /\ last.prev.mode = "Success"
    /\ last.prev.raw
    /\ loading

C6_FailureShowsErrorMessage ==
    /\ (LastWas("settle") /\ ~LastOutcome.ok) =>
          /\ ~loading
          /\ result = JNull
          /\ error = JStr(LastOutcome.err.message)
    /\ (LastWas("settle")
        /\ last.arg = [kind |-> "http", status |-> 422,
                       body |-> JsonBody(JObj([detail |->
                                    JStr("Invalid Reddit URL")]))])
          => error = JStr("Invalid Reddit URL")

\* the request failed with status 422 and detail "Invalid Reddit URL"
C6_Witness ==
    /\ LastWas("settle")
    /\ last.prev.mode = "Loading"
    /\ last.arg.kind = "http"
    /\ last.arg.status = 422
    /\ error = JStr("Invalid Reddit URL")
    /\ Mode = "Failed"

\* C7: a response with a success status whose body is a JSON object that is
\* not an AnalyzeResponse (a required field missing, a sentiment outside the
\* three literals, a count that is not a number) makes the request fail: the
\* component stays mounted (no render throws), stops loading, holds no result
\* and shows an error.
C7_MalformedBodyFails ==
    (/\ LastWas("settle")
     /\ last.arg.kind = "http"
     /\ ResponseOk(last.arg)
     /\ last.arg.body.json
     /\ last.arg.body.value.t = "obj"
     /\ ~Conforms(last.arg.body.value))
    => (mounted /\ ~loading /\ result = JNull /\ error # JNull)

\* the message C8 states for a response with a failure status
ClaimedMessage(resp) ==
    IF /\ resp.body.json
       /\ resp.body.value.t = "obj"
       /\ IsStr(Get(resp.body.value, "detail"))
    THEN Get(resp.body.value, "detail").v
    ELSE FallbackMessage(resp.status)

\* C8: for a response with a failure status the request client throws an
\* error whose message is the detail when the body is JSON with a string
\* detail (the empty string included), and the fallback message with the
\* status code otherwise.
C8_RequestErrorMessage ==
    (LastWas("settle") /\ last.arg.kind = "http" /\ ~ResponseOk(last.arg))
    => /\ ~LastOutcome.ok
       /\ LastOutcome.err.message = ClaimedMessage(last.arg)

\* C9: the component is never loading while it holds a result or an error,
\* and never holds a result and an error at once.
C9_ExclusiveModes ==
    /\ ~(loading /\ (result # JNull \/ error # JNull))
    /\ ~(result # JNull /\ error # JNull)

\* C10: when two requests were outstanding at once and both have settled, the
\* state is that of the response that settled last alone: Success with its
\* result and no error when it returned an AnalyzeResponse, Failed with its
\* message and no result when it threw.
C10_LastResponseWins ==
    (/\ LastWas("settle")
     /\ overlapped
     /\ inflight = {}
     /\ mounted
     /\ (LastOutcome.ok => Conforms(LastOutcome.value)))
    => IF LastOutcome.ok
       THEN ~loading /\ result = LastOutcome.value /\ error = JNull
       ELSE ~loading /\ error = JStr(LastOutcome.err.message) /\ result = JNull

\* C11: a toggle step, taken from Success, flips showRawJson and leaves the
\* mode, the result, the error, copySuccess and the requests (sent and in
\* flight) as they were; the second of two toggles in a row restores the
\* value showRawJson had before the first.
C11_ToggleOnlyFlips ==
    [][(last'.op = "toggle") =>
          /\ Mode = "Success"
          /\ Mode' = "Success"
          /\ showRawJson' = ~showRawJson
          /\ UNCHANGED <<loading, result, error, copySuccess, requests,
                         inflight, mounted>>
          /\ (last.op = "toggle" => showRawJson' = last.prev.raw)]_vars

\* the raw view was shown and has just been hidden again by a toggle
C11_Witness ==
    /\ LastWas("toggle")
    /\ last.prev.mode = "Success"
    /\ last.prev.raw
    /\ ~showRawJson

\* C12: a clipboard write that succeeds sets copySuccess, and the timeout
\* callback that follows clears it: whenever copySuccess is true (in a mounted
\* component) it is eventually false again; neither the continuation of the
\* write nor the timeout callback changes result, loading, error or
\* showRawJson.
C12_CopyAcknowledgedThenCleared ==
    /\ [][(last'.op = "copySettle" /\ last'.arg.written /\ mounted)
            => copySuccess']_vars
    /\ [][(last'.op \in {"copySettle", "timer"})
            => UNCHANGED <<result, loading, error, showRawJson>>]_vars
    /\ ((mounted /\ copySuccess) ~> (~copySuccess \/ ~mounted))

\* the flag was set by a copy made in Success and the timeout has cleared it
C12_Witness ==
    /\ LastWas("timer")
    /\ last.prev.mode = "Success"
    /\ Mode = "Success"
    /\ mounted
    /\ ~copySuccess
    /\ timers = 0

\* C13: when the clipboard write fails, result, error, loading and showRawJson
\* are unchanged, no timeout is started, and copySuccess is false afterwards.
C13_FailedCopyNotAcknowledged ==
    [][(last'.op = "copySettle" /\ ~last'.arg.written) =>
          /\ UNCHANGED <<result, error, loading, showRawJson, timers>>
          /\ ~copySuccess']_vars

\* every request that is outstanding settles, so loading does not last
C14_LoadingEnds == loading ~> ~loading

\* C14: once the last outstanding request has settled the component is not
\* loading, is still mounted, and is in Success or in Failed, whatever the
\* outcome of the request was.
C14_SettledIsTerminal ==
    (LastWas("settle") /\ inflight = {}) =>
        /\ ~loading
        /\ mounted
        /\ Mode \in {"Success", "Failed"}

\* C15: the text handleCopyToClipboard hands to the clipboard, parsed back by
\* JSON.parse, is a value equal field for field to the result the page holds
C15_RoundTrip ==
    \A i \in DOMAIN copies : JSONParse(copies[i]) = Return(result)

C15_Witness ==
    /\ LastWas("copy")
    /\ copies # <<>>
    /\ Get(result, "post_title") = JStr("say \"hi\"")

\* the number j in millionths
Micro(j) == j.v * Pow10(6 - j.e)

RECURSIVE SumOf(_, _, _)
\* the sum over the groups g[i..] of field f, in millionths
SumOf(g, f, i) ==
    IF i > Len(g) THEN 0 ELSE Micro(Get(g[i], f)) + SumOf(g, f, i + 1)

\* the numerical contract of the groups of result r: typed groups, counts
\* that are non-negative integers, labels that differ, proportions that add
\* up to 1 within a millionth, and counts that are their share of the total
Balanced(r) ==
    LET g == Get(r, "groups") IN
    /\ IsArr(g)
    /\ \A i \in DOMAIN g.v :
          /\ ConformsGroup(g.v[i])
          /\ Get(g.v[i], "count").e = 0
          /\ Get(g.v[i], "count").v >= 0
    /\ \A i, j \in DOMAIN g.v :
          i # j => Get(g.v[i], "label") # Get(g.v[j], "label")
    /\ LET total == SumOf(g.v, "count", 1) \div Pow10(6)
           off == SumOf(g.v, "proportion", 1) - Pow10(6) IN
       /\ off \in -1..1
       /\ \A i \in DOMAIN g.v :
             Micro(Get(g.v[i], "proportion")) * total
                 - Micro(Get(g.v[i], "count")) \in (0 - total)..total

\* C16: a result held in Success has groups whose proportions add up to 1
\* within rounding, whose counts are non-negative integers adding up to the
\* total the proportions imply, and whose labels are unique
C16_HeldGroupsBalanced == (Mode = "Success") => Balanced(result)

\* C17: with the form disabled while loading, at most one request is
\* outstanding in every reachable state, and loading is true exactly when a
\* request is outstanding
C17_OneOutstandingWhileLoading ==
    /\ Cardinality(inflight) <= 1
    /\ loading <=> inflight # {}

C17_Witness ==
    /\ UrlSubmitted
    /\ loading
    /\ inflight = {MaxRequests}
    /\ last.prev.mode \in {"Success", "Failed"}

\* C18: every successful copy keeps copySuccess true for its own window: when
\* the timeout of an earlier copy runs out while the window of a later copy is
\* still running, copySuccess stays true
C18_WindowOfLaterCopyKept ==
    (LastWas("timer") /\ mounted /\ timers > 0) => copySuccess

\* C19: copySuccess is true only while the page shows a result (the one that
\* was copied); after a new request has been sent it is not true while
\* loading or once that request has failed
C19_AcknowledgedOnlyInSuccess ==
    (mounted /\ copySuccess) => Mode = "Success"

\* C20: showRawJson is true only while a result is shown, and whenever an
\* answer puts a result on the page showRawJson is false, also when requests
\* overlap
C20_RawViewOnlyWithFreshResult ==
    /\ (mounted /\ showRawJson) => Mode = "Success"
    /\ (LastWas("settle") /\ LastOutcome.ok /\ mounted /\ Mode = "Success")
          => ~showRawJson
====
